---- MODULE Spec2Model ----
(***************************************************************************)
(* Model of the binder crate (src/src/lib.rs): Property<T>, a cell that    *)
(* owns a value and an Arc<AtomicBool> lock flag, and PropertyBinding<T>,  *)
(* the handle returned by bind()/try_bind() that holds a raw NonNull<T>    *)
(* pointer to the value and a clone of the Arc, and swaps the flag back to *)
(* false when dropped.                                                     *)
(*                                                                         *)
(* PropertyBinding<T> has no lifetime parameter, so the borrow of the      *)
(* Property ends when bind() returns: the Property can be moved or dropped *)
(* while a binding is alive.  The value is stored inline (UnsafeCell<T>),  *)
(* so a move of the Property relocates it and the binding's pointer        *)
(* dangles.  A dereference of a dangling pointer is undefined behaviour    *)
(* and is modelled as a nondeterministic choice of outcomes.               *)
(*                                                                         *)
(* bind(), try_bind() and Drop each touch shared state in one atomic swap  *)
(* and are otherwise thread-local, so each is one step.                    *)
(***************************************************************************)
EXTENDS Integers, FiniteSets, Sequences, TLC

\* ------------------------------------------------------------------ bounds
NumCells    == 2    \* Property instances that can be constructed
NumThreads  == 2    \* threads using the cells
MaxVal      == 1    \* payload values are 0..MaxVal
MaxBindings == 2    \* PropertyBinding objects of one cell that can coexist
MaxLost     == 1    \* failed attempts counted per lock period (saturating)
MaxCycles   == 1    \* releases counted per cell (saturating)
MaxSteps    == 7    \* operations performed in one run

Cells     == 1..NumCells
Threads   == 1..NumThreads
Addrs     == 1..(NumCells + 1)  \* places a Property can be stored: one spare
Values    == 0..MaxVal
HandleIds == Cells \X (1..MaxBindings)  \* <<c, k>>: k-th binding issued by c
Locks     == Cells              \* one Arc<AtomicBool> allocation per Property::new

NoCell   == 0
NoThread == 0
NoVal    == -1
NoMsg    == << >>
NoSrc    == << 0, 0 >>
NoHandle == [value |-> 0, lock |-> 0, owner |-> 0]

Min(S) == CHOOSE x \in S : \A y \in S : x <= y

\* ------------------------------------------------------------------- state
VARIABLES
    cst,        \* cst[c]: "none" (not constructed), "live", "dead" (dropped)
    addr,       \* addr[c]: where the Property (and its inline value) is stored
    mut_lock,   \* mut_lock[c]: the Arc<AtomicBool> the Property holds
    locked,     \* locked[l]: content of the AtomicBool l
    mem,        \* mem[a]: the payload stored at address a
    handles,    \* handles[h]: a PropertyBinding (value, lock) and who owns it
    pc,         \* pc[t]: "idle", or "panicking" while a panic unwinds t
    aborted,    \* a panic while panicking aborted the process
    last,       \* the last completed operation and its result
    lost,       \* lost[c]: attempts that failed since c was last unlocked
    cycles,     \* cycles[c]: releases of handles of c so far
    wr,         \* wr[c]: last value written through a binding of c, and
                \*        whether that binding has been released since
    fresh,      \* the cell under a construct-bind-read round trip, if any
    steps       \* operations performed so far

vars == << cst, addr, mut_lock, locked, mem, handles, pc, aborted,
           last, lost, cycles, wr, fresh, steps >>

\* ------------------------------------------------------- program operators
Ev(op, t, c, res, val, msg) ==
    [op |-> op, thread |-> t, cell |-> c, res |-> res, val |-> val, msg |-> msg]

NoFresh == [cell |-> NoCell, val |-> NoVal, stage |-> "none", src |-> NoCell]
NoWr    == [val |-> NoVal, released |-> FALSE]

\* std::any::type_name::<T>() for the payload type of cell c: the cells are
\* Property<i32> and Property<f32> alternately, as in the tests
type_name(c) == IF c % 2 = 1 THEN "i32" ELSE "f32"

swap_toggle(old, new) == [ret |-> old, now |-> ~old]

\* AtomicBool::swap(new, SeqCst): stores new, returns the previous content
swap(old, new) == [ret |-> old, now |-> new]

Arc_shared(c) == 1

\* Arc::new(AtomicBool::new(false)) in Property::new: a flag of its own
Arc_new(c) == c

new_flag_locked == TRUE

\* the initial content of the flag in Property::new
new_flag == FALSE

new_value_default(v) == 0

\* what Property::new stores as the payload
new_value(v) == v

bind_store_unset == FALSE

\* the value bind()/try_bind() store into the flag
bind_store == TRUE

drop_store_stuck == TRUE

\* the value Drop stores into the flag
drop_store == FALSE

BindMsg_untyped(T) == << "PropertyBinding<", "T",
                         ">: Tried to bind a property that was already bound!" >>

\* panic message of bind()
BindMsg(T) == << "PropertyBinding<", T,
                 ">: Tried to bind a property that was already bound!" >>

\* panic message of Drop
DropMsg(T) == << "PropertyBinding<", T,
                 ">: Tried to drop a lock that was already unlocked!" >>

bind_result_unchecked(was_locked, T) == [res |-> "ok", msg |-> NoMsg]

\* outcome of bind() given what the swap returned
bind_result(was_locked, T) ==
    IF was_locked THEN [res |-> "panic", msg |-> BindMsg(T)]
                  ELSE [res |-> "ok",    msg |-> NoMsg]

try_bind_result_unchecked(was_locked) == [res |-> "ok", msg |-> NoMsg]

try_bind_result_inverted(was_locked) ==
    IF was_locked THEN [res |-> "ok",  msg |-> NoMsg]
                  ELSE [res |-> "err", msg |-> NoMsg]

\* outcome of try_bind() given what the swap returned
try_bind_result(was_locked) ==
    IF was_locked THEN [res |-> "err", msg |-> NoMsg]
                  ELSE [res |-> "ok",  msg |-> NoMsg]

drop_result_inverted(was_locked, T) ==
    IF was_locked = TRUE THEN [res |-> "panic", msg |-> DropMsg(T)]
                         ELSE [res |-> "ok",    msg |-> NoMsg]

\* outcome of Drop given what the swap returned
drop_result(was_locked, T) ==
    IF was_locked = FALSE THEN [res |-> "panic", msg |-> DropMsg(T)]
                          ELSE [res |-> "ok",    msg |-> NoMsg]

\* the PropertyBinding built by bind()/try_bind() of cell c for thread t
PropertyBinding(c, t) ==
    [value |-> addr[c], lock |-> mut_lock[c], owner |-> t]

\* ------------------------------------------------------------ derived sets
Live(h)        == handles[h] # NoHandle
LiveHandles(c) == { h \in HandleIds : h[1] = c /\ Live(h) }
NumLive(c)     == Cardinality(LiveHandles(c))
Owned(t)       == { h \in HandleIds : Live(h) /\ handles[h].owner = t }
Occupied       == { addr[c] : c \in { d \in Cells : cst[d] = "live" } }
FreeAddrs      == Addrs \ Occupied
FreeSlots(c)   == { k \in 1..MaxBindings : ~Live(<<c, k>>) }

\* where a new or moved Property is placed
alloc == Min(FreeAddrs)

\* the pointer of the binding still refers to the storage of its cell
Valid(h) == cst[h[1]] = "live" /\ addr[h[1]] = handles[h].value

\* values a read through binding h can yield: any value once the pointer dangles
DerefSet(h) == IF Valid(h) THEN { mem[handles[h].value] } ELSE Values

\* the pointer of binding h refers to storage some Property occupies
Hits(h) == handles[h].value \in Occupied

Sat(n, max) == IF n < max THEN n + 1 ELSE max

\* -------------------------------------------------------------------- Init
Init ==
    /\ cst       = [c \in Cells |-> "none"]
    /\ addr      = [c \in Cells |-> 1]
    /\ mut_lock  = [c \in Cells |-> c]
    /\ locked    = [l \in Locks |-> FALSE]
    /\ mem       = [a \in Addrs |-> 0]
    /\ handles   = [h \in HandleIds |-> NoHandle]
    /\ pc        = [t \in Threads |-> "idle"]
    /\ aborted   = FALSE
    /\ last      = Ev("none", NoThread, NoCell, "none", NoVal, NoMsg)
    /\ lost      = [c \in Cells |-> 0]
    /\ cycles    = [c \in Cells |-> 0]
    /\ wr        = [c \in Cells |-> NoWr]
    /\ fresh     = NoFresh
    /\ steps     = 0

\* ------------------------------------------------------- history bookkeeping
\* the round trip construct -> bind -> read survives only its own steps
FreshBound(c, res) ==
    IF fresh.cell = c /\ fresh.stage = "new" /\ res = "ok"
    THEN [fresh EXCEPT !.stage = "bound"] ELSE NoFresh

FreshRead(c) ==
    IF fresh.cell = c /\ fresh.stage = "bound" THEN fresh ELSE NoFresh

\* every operation: the process has not aborted and the run is not over
Running == ~aborted /\ steps < MaxSteps
Tick    == steps' = steps + 1

\* ----------------------------------------------------------------- actions
\* Property::new(value): the value is a literal or was read through a
\* binding the thread holds (tests.rs: Property::new(vec![.. y: *b ..]))
new(t, c, src, v) ==
    /\ Running /\ Tick
    /\ pc[t] = "idle"
    /\ cst[c] = "none"
    /\ src \in {NoSrc} \cup Owned(t)
    /\ v \in (IF src = NoSrc THEN Values ELSE DerefSet(src))
    /\ cst'      = [cst EXCEPT ![c] = "live"]
    /\ addr'     = [addr EXCEPT ![c] = alloc]
    /\ mut_lock' = [mut_lock EXCEPT ![c] = Arc_new(c)]
    /\ locked'   = [locked EXCEPT ![Arc_new(c)] = new_flag]
    /\ mem'      = [mem EXCEPT ![alloc] = new_value(v)]
    /\ fresh'    = [cell |-> c, val |-> v, stage |-> "new", src |-> src[1]]
    /\ last'     = Ev("new", NoThread, c, "ok", v, NoMsg)
    /\ UNCHANGED << handles, pc, aborted, lost, cycles, wr >>

Acquire_waiting(t, op, c, s, r) ==
    /\ ~s.ret
    /\ FreeSlots(c) # {}
    /\ locked'  = [locked EXCEPT ![mut_lock[c]] = s.now]
    /\ handles' = [handles EXCEPT ![<<c, Min(FreeSlots(c))>>] =
                                      PropertyBinding(c, t)]
    /\ fresh'   = FreshBound(c, r.res)
    /\ last'    = Ev(op, t, c, r.res, NoVal, r.msg)
    /\ UNCHANGED << cst, addr, mut_lock, mem, pc, aborted, lost, cycles, wr >>

\* the common tail of bind() and try_bind(): the swap has returned s, the
\* outcome is r; a binding is built on success
Acquire(t, op, c, s, r) ==
    /\ r.res = "ok" => FreeSlots(c) # {}
    /\ locked'  = [locked EXCEPT ![mut_lock[c]] = s.now]
    /\ handles' = IF r.res = "ok"
                  THEN [handles EXCEPT ![<<c, Min(FreeSlots(c))>>] =
                                            PropertyBinding(c, t)]
                  ELSE handles
    /\ pc'      = [pc EXCEPT ![t] = IF r.res = "panic" THEN "panicking" ELSE @]
    /\ lost'    = [lost EXCEPT ![c] = IF r.res = "ok" THEN @ ELSE Sat(@, MaxLost)]
    /\ fresh'   = FreshBound(c, r.res)
    /\ last'    = Ev(op, t, c, r.res, NoVal, r.msg)
    /\ UNCHANGED << cst, addr, mut_lock, mem, aborted, cycles, wr >>

\* Property::bind on a live Property
bind(t, c) ==
    /\ Running /\ Tick
    /\ pc[t] = "idle"
    /\ cst[c] = "live"
    /\ LET s == swap(locked[mut_lock[c]], bind_store)
       IN  Acquire(t, "bind", c, s, bind_result(s.ret, type_name(c)))

\* Property::try_bind on a live Property
try_bind(t, c) ==
    /\ Running /\ Tick
    /\ pc[t] = "idle"
    /\ cst[c] = "live"
    /\ LET s == swap(locked[mut_lock[c]], bind_store)
       IN  Acquire(t, "try_bind", c, s, try_bind_result(s.ret))

\* Drop for PropertyBinding: at scope exit, or while the owner unwinds
drop(t, h) ==
    /\ Running /\ Tick
    /\ h \in Owned(t)
    /\ LET b == handles[h]
           c == h[1]
           s == swap(locked[b.lock], drop_store)
           r == drop_result(s.ret, type_name(c))
       IN  /\ locked'  = [locked EXCEPT ![b.lock] = s.now]
           /\ handles' = [handles EXCEPT ![h] = NoHandle]
           /\ pc'      = IF r.res = "panic"
                         THEN [pc EXCEPT ![t] = "panicking"] ELSE pc
           /\ aborted' = (r.res = "panic" /\ pc[t] = "panicking")
           /\ last'    = Ev("drop", t, c, r.res, b.value, r.msg)
           /\ cycles'  = [cycles EXCEPT ![c] = Sat(@, MaxCycles)]
           /\ lost'    = [lost EXCEPT ![c] = 0]
           /\ wr'      = [wr EXCEPT ![c] = IF @.val # NoVal
                                           THEN [@ EXCEPT !.released = TRUE]
                                           ELSE @]
    /\ fresh' = NoFresh
    /\ UNCHANGED << cst, addr, mut_lock, mem >>

\* Deref::deref: a read through the binding's pointer
deref(t, h, v) ==
    /\ Running /\ Tick
    /\ pc[t] = "idle"
    /\ h \in Owned(t)
    /\ v \in DerefSet(h)
    /\ last'  = Ev("deref", NoThread, h[1], "ok", v, NoMsg)
    /\ fresh' = FreshRead(h[1])
    /\ UNCHANGED << cst, addr, mut_lock, locked, mem, handles, pc, aborted,
                    lost, cycles, wr >>

\* DerefMut::deref_mut followed by a store of w through the reference; the
\* store through a dangling pointer lands on whatever Property occupies the
\* address, or is lost
deref_mut(t, h, w, lands) ==
    /\ Running /\ Tick
    /\ pc[t] = "idle"
    /\ h \in Owned(t)
    /\ lands = (Valid(h) \/ (lands /\ Hits(h)))
    /\ mem'   = IF lands THEN [mem EXCEPT ![handles[h].value] = w] ELSE mem
    /\ wr'    = [wr EXCEPT ![h[1]] = [val |-> w, released |-> FALSE]]
    /\ last'  = Ev("deref_mut", NoThread, h[1], "ok", w, NoMsg)
    /\ fresh' = NoFresh
    /\ UNCHANGED << cst, addr, mut_lock, locked, handles, pc, aborted,
                    lost, cycles >>

move_rearm(t, c) ==
    /\ Running /\ Tick
    /\ pc[t] = "idle"
    /\ cst[c] = "live"
    /\ mem'    = [mem EXCEPT ![alloc] = mem[addr[c]], ![addr[c]] = 0]
    /\ addr'   = [addr EXCEPT ![c] = alloc]
    /\ locked' = [locked EXCEPT ![mut_lock[c]] = new_flag]
    /\ last'   = Ev("move", NoThread, c, "ok", NoVal, NoMsg)
    /\ fresh'  = NoFresh
    /\ UNCHANGED << cst, mut_lock, handles, pc, aborted, lost, cycles, wr >>

\* a move of the Property (into a Box, an Arc, a struct, another variable):
\* the inline UnsafeCell<T> is copied to the new place.  Nothing ties a
\* PropertyBinding to the borrow of its Property, so bindings do not forbid it.
move(t, c) ==
    /\ Running /\ Tick
    /\ pc[t] = "idle"
    /\ cst[c] = "live"
    /\ mem'   = [mem EXCEPT ![alloc] = mem[addr[c]], ![addr[c]] = 0]
    /\ addr'  = [addr EXCEPT ![c] = alloc]
    /\ last'  = Ev("move", NoThread, c, "ok", NoVal, NoMsg)
    /\ fresh' = NoFresh
    /\ UNCHANGED << cst, mut_lock, locked, handles, pc, aborted,
                    lost, cycles, wr >>

\* the Property goes out of scope; its Arc keeps the flag alive for bindings
destroy(t, c) ==
    /\ Running /\ Tick
    /\ pc[t] = "idle"
    /\ cst[c] = "live"
    /\ cst'   = [cst EXCEPT ![c] = "dead"]
    /\ mem'   = [mem EXCEPT ![addr[c]] = 0]
    /\ last'  = Ev("destroy", NoThread, c, "ok", NoVal, NoMsg)
    /\ fresh' = NoFresh
    /\ UNCHANGED << addr, mut_lock, locked, handles, pc, aborted,
                    lost, cycles, wr >>

\* unsafe impl Send for PropertyBinding: the binding is handed to thread u
send(t, h, u) ==
    /\ Running /\ Tick
    /\ pc[t] = "idle"
    /\ h \in Owned(t)
    /\ u # t
    /\ handles' = [handles EXCEPT ![h].owner = u]
    /\ last'    = Ev("send", NoThread, h[1], "ok", NoVal, NoMsg)
    /\ fresh'   = NoFresh
    /\ UNCHANGED << cst, addr, mut_lock, locked, mem, pc, aborted,
                    lost, cycles, wr >>

\* the panic of bind() has unwound (test harness, catch_unwind, thread exit
\* and respawn); bindings in the unwound frames were dropped before this
recover(t) ==
    /\ Running /\ Tick
    /\ pc[t] = "panicking"
    /\ pc'    = [pc EXCEPT ![t] = "idle"]
    /\ last'  = Ev("recover", NoThread, NoCell, "ok", NoVal, NoMsg)
    /\ fresh' = NoFresh
    /\ UNCHANGED << cst, addr, mut_lock, locked, mem, handles, aborted,
                    lost, cycles, wr >>

Next ==
    \/ \E t \in Threads, c \in Cells, src \in {NoSrc} \cup HandleIds, v \in Values :
          new(t, c, src, v)
    \/ \E t \in Threads, c \in Cells : bind(t, c)
    \/ \E t \in Threads, c \in Cells : try_bind(t, c)
    \/ \E t \in Threads, h \in HandleIds : drop(t, h)
    \/ \E t \in Threads, h \in HandleIds, v \in Values : deref(t, h, v)
    \/ \E t \in Threads, h \in HandleIds, w \in Values, lands \in BOOLEAN :
          deref_mut(t, h, w, lands)
    \/ \E t \in Threads, c \in Cells : move(t, c)
    \/ \E t \in Threads, c \in Cells : destroy(t, c)
    \/ \E t, u \in Threads, h \in HandleIds : send(t, h, u)
    \/ \E t \in Threads : recover(t)

Spec == Init /\ [][Next]_vars

\* ------------------------------------------------------------------ claims
\* the step just taken was operation op on cell c
Did(op, c) == steps' # steps /\ last'.op = op /\ last'.cell = c
Attempted(c) == Did("bind", c) \/ Did("try_bind", c)

\* C1: under every interleaving of bind(), try_bind() and release by any
\* number of threads, a cell never has more than one live binding.
C1_SingleOwner == \A c \in Cells : NumLive(c) <= 1

\* a cell that went through a release is bound again and an attempt on it failed
C1_Witness ==
    \E c \in Cells : NumLive(c) = 1 /\ cycles[c] >= 1 /\ lost[c] >= 1

\* C2: of the attempts made on a cell since it was last unlocked (with no
\* release in between), exactly one was granted a binding: never two, never none.
C2_ExactlyOneWinner ==
    \A c \in Cells : (NumLive(c) + lost[c] >= 1) => NumLive(c) = 1

\* construct, then two threads attempt: the second, another thread, failed
C2_Witness ==
    /\ steps = 3
    /\ last.op \in {"bind", "try_bind"} /\ last.res \in {"panic", "err"}
    /\ lost[last.cell] >= 1
    /\ \E h \in LiveHandles(last.cell) : handles[h].owner # last.thread

\* C3: while a cell has a live binding, bind() on it panics with the message
\* naming the payload type and saying the property was already bound, and
\* try_bind() on it returns Err; neither issues a binding.
C3_Exclusion ==
    [][\A c \in Cells :
         (Attempted(c) /\ NumLive(c) >= 1) =>
            /\ handles' = handles
            /\ last'.op = "bind" =>
                 /\ last'.res = "panic"
                 /\ last'.msg = << "PropertyBinding<", type_name(c),
                       ">: Tried to bind a property that was already bound!" >>
            /\ last'.op = "try_bind" => last'.res = "err"]_vars

\* a bind() has panicked on a cell whose binding is still alive
C3_Witness ==
    /\ last.op = "bind" /\ last.res = "panic"
    /\ pc[last.thread] = "panicking"
    /\ NumLive(last.cell) = 1

\* C4: once the live binding of a cell has been released, the next bind() or
\* try_bind() on the cell succeeds and returns a new binding to the cell's
\* value, whatever cycles and failed attempts came before.
C4_ReleaseReentry ==
    [][\A c \in Cells, t \in Threads :
         (Attempted(c) /\ last'.thread = t /\ cycles[c] >= 1 /\ NumLive(c) = 0) =>
            /\ last'.res = "ok"
            /\ \E h \in HandleIds :
                 /\ h[1] = c /\ ~Live(h)
                 /\ handles' = [handles EXCEPT ![h] =
                        [value |-> addr[c], lock |-> mut_lock[c], owner |-> t]]
       ]_vars

\* a binding was granted on a cell that had been released before
C4_Witness ==
    /\ last.op \in {"bind", "try_bind"} /\ last.res = "ok"
    /\ cycles[last.cell] >= 1
    /\ NumLive(last.cell) = 1

\* C5: a value written through a binding that has since been released is the
\* value read through the next binding of the cell.
C5_WriteVisibility ==
    (last.op = "deref" /\ wr[last.cell].val # NoVal /\ wr[last.cell].released)
        => last.val = wr[last.cell].val

\* C6: Property::new leaves the cell unlocked, an immediate bind() succeeds
\* and an immediate read through that binding yields the constructed value.
C6_RoundTrip ==
    [][\A c \in Cells :
         /\ Did("new", c) => ~locked'[mut_lock'[c]]
         /\ (Attempted(c) /\ fresh.cell = c /\ fresh.stage = "new")
               => last'.res = "ok"
         /\ (Did("deref", c) /\ fresh.cell = c /\ fresh.stage = "bound")
               => last'.val = fresh.val]_vars

\* a read has just followed construct and bind of the same cell
C6_Witness ==
    /\ fresh.stage = "bound"
    /\ last.op = "deref" /\ last.cell = fresh.cell
    /\ last.val = MaxVal

\* C7: for every constructed cell the flag is true exactly when one binding
\* of the cell is alive and false exactly when none is.
C7_LockIffHandle ==
    \A c \in Cells : cst[c] # "none" =>
        /\ locked[mut_lock[c]] <=> NumLive(c) = 1
        /\ ~locked[mut_lock[c]] <=> NumLive(c) = 0

\* one cell is locked with its binding alive while another, released, is unlocked
C7_Witness ==
    \E c, d \in Cells :
        /\ locked[mut_lock[c]] /\ NumLive(c) = 1
        /\ cst[d] = "live" /\ cycles[d] >= 1 /\ ~locked[mut_lock[d]] /\ NumLive(d) = 0

\* C8: the pointer of every live binding is the place where its cell
\* currently stores the value.
C8_AddressStable == \A h \in HandleIds : Live(h) => Valid(h)

\* C9: bind(), try_bind() and release on one cell leave the flag, the
\* bindings and the value of every other cell alone, and the outcome of an
\* attempt on a cell is decided by that cell's own flag.
C9_Independence ==
    [][\A a \in Cells :
         (Attempted(a) \/ Did("drop", a)) =>
            /\ \A b \in Cells \ {a} :
                 /\ locked'[mut_lock'[b]] = locked[mut_lock[b]]
                 /\ LiveHandles(b)' = LiveHandles(b)
                 /\ cst[b] = "live" => mem'[addr'[b]] = mem[addr[b]]
            /\ Attempted(a) => (last'.res = "ok" <=> ~locked[mut_lock[a]])
       ]_vars

\* a cell built from a value read through another cell's binding was bound
\* while that binding was alive
C9_Witness ==
    /\ fresh.stage = "bound" /\ fresh.src # NoCell
    /\ last.op \in {"bind", "try_bind"} /\ last.res = "ok" /\ last.cell = fresh.cell
    /\ NumLive(fresh.src) = 1

\* C10: no release observes the flag already unlocked: Drop never panics
\* and the process never aborts.
C10_NoDoubleRelease ==
    /\ ~aborted
    /\ last.op = "drop" => last.res = "ok"

\* a binding was released by a thread unwinding from a bind() panic
C10_Witness ==
    /\ last.op = "drop" /\ last.res = "ok"
    /\ pc[last.thread] = "panicking"

\* C11: a try_bind() that returns Err and a bind() that panics change neither
\* the flag, nor the live bindings, nor the stored value or place of any cell,
\* nor any other thread.
C11_FailedAttemptNoTransition ==
    [][\A c \in Cells :
         (Attempted(c) /\ last'.res \in {"err", "panic"}) =>
            /\ locked' = locked
            /\ handles' = handles
            /\ mem' = mem /\ addr' = addr /\ cst' = cst /\ mut_lock' = mut_lock
            /\ aborted' = aborted
            /\ \A u \in Threads : u # last'.thread => pc'[u] = pc[u]
       ]_vars

\* a try_bind() has just failed on a cell that is still locked and bound
C11_Witness ==
    /\ last.op = "try_bind" /\ last.res = "err"
    /\ locked[mut_lock[last.cell]]
    /\ NumLive(last.cell) = 1
    /\ pc[last.thread] = "idle"

\* C12: bind() and try_bind() make the same locking attempt: each stores
\* true, each succeeds exactly when its swap returned false, the two would
\* agree on success from the same flag, and the only outcomes are success
\* and the entry point's own failure.
C12_SameLockingAttempt ==
    [][\A c \in Cells :
         Attempted(c) =>
            LET was == locked[mut_lock[c]] IN
            /\ last'.res = "ok" <=> ~was
            /\ last'.res # "ok" <=> was
            /\ locked'[mut_lock[c]] = TRUE
            /\ last'.res \in (IF last'.op = "bind" THEN {"ok", "panic"}
                                                   ELSE {"ok", "err"})
            /\ (last'.res = "ok") <=> (NumLive(c)' = NumLive(c) + 1)
            /\ (bind_result(was, type_name(c)).res = "ok")
                   <=> (try_bind_result(was).res = "ok")
       ]_vars

\* try_bind() was granted on a cell right after its construction
C12_Witness ==
    /\ last.op = "try_bind" /\ last.res = "ok"
    /\ fresh.stage = "bound" /\ fresh.cell = last.cell
    /\ locked[mut_lock[last.cell]]

\* C13: the storage of a cell's value is reachable only through the single
\* live binding of that cell: every live binding whose pointer refers to
\* storage a cell occupies is the one binding of that very cell, so the
\* thread owning it is the only one that can read or write the value.
C13_NoRacingAccess ==
    \A h \in HandleIds : Live(h) =>
        \A c \in Cells :
            (cst[c] = "live" /\ addr[c] = handles[h].value)
                => (c = h[1] /\ LiveHandles(c) = {h})

\* C14: the cell of every live binding has not been destroyed.
C14_HandleWithinCellLife ==
    \A h \in HandleIds : Live(h) => cst[h[1]] = "live"

\* C15: the flag of a constructed cell changes only from unlocked to locked
\* in a successful bind()/try_bind() on that cell, and from locked to
\* unlocked in the release of a binding of that cell; Property::new leaves
\* it unlocked.
C15_FlagStateMachine ==
    [][\A c \in Cells :
         /\ Did("new", c) => locked'[mut_lock'[c]] = FALSE
         /\ (cst[c] # "none" /\ locked'[mut_lock'[c]] # locked[mut_lock[c]]) =>
               \/ /\ ~locked[mut_lock[c]]
                  /\ Attempted(c) /\ last'.res = "ok"
               \/ /\ locked[mut_lock[c]]
                  /\ Did("drop", c) /\ last'.res = "ok"
                  /\ \E h \in LiveHandles(c) : ~Live(h)'
       ]_vars

\* the binding of a cell has just been released and the cell is unlocked
C15_Witness ==
    /\ last.op = "drop" /\ last.res = "ok"
    /\ cst[last.cell] = "live"
    /\ ~locked[mut_lock[last.cell]]
    /\ NumLive(last.cell) = 0

\* C16: a read or a write through a binding changes neither the flag nor the
\* bindings, and a read through a binding yields the value last written
\* through it.
C16_DerefFrameAndReadBack ==
    [][\A c \in Cells :
         /\ (Did("deref", c) \/ Did("deref_mut", c)) =>
               /\ locked' = locked
               /\ handles' = handles
         /\ (Did("deref", c) /\ wr[c].val # NoVal /\ ~wr[c].released) =>
               last'.val = wr[c].val
       ]_vars

\* C17: the release of a binding whose cell has been moved since the bind
\* finds the cell's flag locked, unlocks it and does not panic, and the flag
\* it leaves lets the moved cell be bound again.
C17_ReleaseAfterMove ==
    [][\A c \in Cells, h \in HandleIds :
         (/\ Did("drop", c) /\ h[1] = c /\ Live(h) /\ ~Live(h)'
          /\ cst[c] = "live" /\ handles[h].value # addr[c]) =>
            /\ last'.res = "ok"
            /\ locked[mut_lock[c]] /\ ~locked'[mut_lock'[c]]
            /\ pc' = pc /\ aborted' = FALSE
            /\ cst'[c] = "live" /\ NumLive(c)' = 0
            /\ bind_result(locked'[mut_lock'[c]], type_name(c)).res = "ok"
            /\ try_bind_result(locked'[mut_lock'[c]]).res = "ok"
       ]_vars

\* a binding whose pointer no longer was the place of its cell has just been
\* released and the cell is unlocked
C17_Witness ==
    /\ last.op = "drop" /\ last.res = "ok"
    /\ cst[last.cell] = "live"
    /\ last.val # addr[last.cell]
    /\ ~locked[mut_lock[last.cell]]

\* C18: no operation waits: while the run goes on, every idle thread can
\* complete bind() and try_bind() on every live cell in one step of its own,
\* locked or not, every binding can be released by its owner at once, and the
\* state is no deadlock as long as a cell or a binding is alive.
C18_NonBlocking ==
    Running =>
        /\ \A t \in Threads, c \in Cells :
              (pc[t] = "idle" /\ cst[c] = "live") =>
                  /\ ENABLED bind(t, c)
                  /\ ENABLED try_bind(t, c)
        /\ \A t \in Threads, h \in HandleIds :
              (Live(h) /\ handles[h].owner = t) => ENABLED drop(t, h)
        /\ ((\E c \in Cells : cst[c] = "live") \/ (\E h \in HandleIds : Live(h)))
              => ENABLED Next

\* a try_bind() on a locked cell has returned at once to a thread that goes
\* on, while the bindings of this and of another cell are held
C18_Witness ==
    /\ steps < MaxSteps
    /\ last.op = "try_bind" /\ last.res = "err"
    /\ pc[last.thread] = "idle"
    /\ \A c \in Cells : NumLive(c) = 1 /\ locked[mut_lock[c]]
====
